---- MODULE Spec2Model ----
(***************************************************************************)
(* SGLICollect: bulk search over a CSV table (src/search.py) and the       *)
(* GPortal result parser (src/gportal/gportal_response.py).                *)
(*                                                                         *)
(* Python values are modelled as cells [k, n]:                             *)
(*   k = "nan"    pandas missing value (float nan)                         *)
(*   k = "none"   Python None                                              *)
(*   k = "int"    the number n                                             *)
(*   k = "digits" a str made of the decimal digits of n                    *)
(*   k = "text"   a non-numeric str; n is an opaque code, code 0 is ""     *)
(* A CSV file holds fields [k, n] with k in {"empty", "digits", "text"}.   *)
(***************************************************************************)
EXTENDS Integers, Sequences, FiniteSets, TLC

VARIABLES
    df,            \* the DataFrame of search_csv / save: [columns, rows]
    disk,          \* the CSV file args.csv / path: [columns, rows] of fields
    i,             \* loop index of search_csv (0-based, as in the code)
    pc,            \* position of the running operation
    run,           \* number of the current run of search_csv over the file
    no_repeat,     \* args.no_repeat of the current run
    results,       \* GPortalSearchResult.results: the candidate set
    lastCall,      \* arguments of the latest api.search / filter_results call
    lastResult,    \* what that call returned: index in results, 0 = None, -1 = raised
    lastRow,       \* row position (1-based) the latest loop step handled, 0 = none
    outcome,       \* what the latest loop step did with its row
    searched,      \* row positions api.search was called for in this run
    df0,           \* the table as loaded at the start of the current operation
    input0,        \* the file as it was before the first run
    sinceFlush,    \* loop steps completed since the table was last written
    resolved,      \* row positions resolved in this run
    flushedResolved, \* row positions resolved in this run and written since
    prevResolved,  \* row positions resolved and written by earlier runs
    allSkip,       \* every run so far had no_repeat set
    prevPc         \* where the previous run was when it ended

vars == <<df, disk, i, pc, run, no_repeat, results, lastCall, lastResult,
          lastRow, outcome, searched, df0, input0, sinceFlush, resolved,
          flushedResolved, prevResolved, allSkip, prevPc>>

-----------------------------------------------------------------------------
(* Bounds *)

MaxRows == 2        \* rows of the short tables
MaxCands == 3       \* footprints of a candidate set
MaxRuns == 2        \* runs of search_csv over the same file
MaxCoord == 2       \* lat / lon arguments of filter_results range over 0..MaxCoord

-----------------------------------------------------------------------------
(* Values *)

NaN == [k |-> "nan", n |-> 0]
None == [k |-> "none", n |-> 0]
Num(n) == [k |-> "int", n |-> n]
Digits(n) == [k |-> "digits", n |-> n]
Text(c) == [k |-> "text", n |-> c]

\* Python int(x) on a value
IntOf(c) == IF c.k \in {"int", "digits"} THEN Num(c.n) ELSE None

\* Python truth value of a cell
Truthy(c) ==
    CASE c.k = "nan" -> TRUE
      [] c.k = "none" -> FALSE
      [] c.k = "int" -> c.n # 0
      [] c.k = "digits" -> TRUE
      [] c.k = "text" -> c.n # 0

\* Series.fillna(0)
fillna(row) == [c \in DOMAIN row |-> IF row[c].k \in {"nan", "none"} THEN Num(0) ELSE row[c]]

\* if key in d and d[key]: return d[key]
get_value(d, key) == IF key \in DOMAIN d /\ Truthy(d[key]) THEN d[key] ELSE None

Range(s) == {s[x] : x \in 1..Len(s)}

Min(S) == CHOOSE x \in S : \A y \in S : x <= y

Max(S) == CHOOSE x \in S : \A y \in S : x >= y

OUTPUT_COLUMNS == <<"identifier", "file_status", "resolution", "path_number",
                    "scene_number", "download_url", "preview_url", "cloud_coverage">>

INPUT_COLUMNS == <<"date", "lat", "lon", "path_number", "scene_number",
                   "resolution", "identifier">>

-----------------------------------------------------------------------------
(* Footprints: GPortalResponse objects.  A polygon is an axis-parallel     *)
(* rectangle lon in [x1, x2], lat in [y1, y2]; ok = FALSE is a feature     *)
(* whose coordinate list is empty.                                         *)

Rect(x1, x2, y1, y2) == [ok |-> TRUE, x1 |-> x1, x2 |-> x2, y1 |-> y1, y2 |-> y2]

NoCoords == [ok |-> FALSE, x1 |-> 0, x2 |-> 0, y1 |-> 0, y2 |-> 0]

Footprint(id, orbit, scene, cloud, poly) ==
    [identifier |-> Text(id), status |-> Text(20), resolution |-> Num(250),
     orbitNumber |-> Digits(orbit), sceneNumber |-> Num(scene),
     downloadUrl |-> Text(30 + id), previewUrl |-> Text(40 + id),
     cloud |-> cloud, coordinates |-> poly]

F1 == Footprint(1, 1, 1, Num(10), Rect(-1, 5, -1, 5))

F2 == Footprint(2, 1, 2, Num(10), Rect(0, 4, 0, 4))

\* same path, scene and polygon as F1
F3 == Footprint(3, 1, 1, Num(10), Rect(-1, 5, -1, 5))

\* a feature without coordinates
F4 == Footprint(4, 2, 1, Num(10), NoCoords)

\* scene number 0, no cloud cover value
F5 == Footprint(5, 2, 0, None, Rect(1, 3, 1, 3))

Footprints == {F1, F2, F3, F4, F5}

RECURSIVE SeqsUpTo(_, _)
SeqsUpTo(S, n) ==
    IF n = 0 THEN {<<>>}
    ELSE LET shorter == SeqsUpTo(S, n - 1)
         IN  shorter \cup {Append(s, x) : s \in {t \in shorter : Len(t) = n - 1}, x \in S}

CandidateSets == SeqsUpTo(Footprints, MaxCands)

\* what the catalogue answers in a run of search_csv
Catalogues == {<<>>, <<F5, F1, F2>>, <<F3, F1>>, <<F2, F4>>, <<F5>>, <<F2>>}

-----------------------------------------------------------------------------
(* Geometry primitives of gportal/utils.py *)

inside_polygon(poly, lon, lat) ==
    IF poly.x1 < lon.n /\ lon.n < poly.x2 /\ poly.y1 < lat.n /\ lat.n < poly.y2 THEN 1 ELSE 0

min_distance(point, poly) ==
    LET lat == point[1].n
        lon == point[2].n
        Abs(x) == IF x < 0 THEN -x ELSE x
    IN  Min({Abs(lon - poly.x1), Abs(poly.x2 - lon), Abs(lat - poly.y1), Abs(poly.y2 - lat)})

-----------------------------------------------------------------------------
(* GPortalSearchResult.filter_results.  The result is the position in      *)
(* rs of the returned product, 0 for None, -1 when an exception leaves     *)
(* the function.                                                           *)

\* positions of the products whose polygon includes the point, in order
Filtered(rs, lat, lon) ==
    SelectSeq([j \in 1..Len(rs) |-> j],
              LAMBDA j : inside_polygon(rs[j].coordinates, lon, lat) = 1)

\* list.index(max(list)): the first position holding the maximum
IndexOfMaxLast(ds) == Max({j \in 1..Len(ds) : ds[j] = Max(Range(ds))})

IndexOfMax(ds) == Min({j \in 1..Len(ds) : ds[j] = Max(Range(ds))})

PathOnlyMatch(f, path_number, scene_number) ==
    path_number = IntOf(f.orbitNumber)

\* path_number == int(f.properties.orbitNumber) and scene_number == ...sceneNumber
PathSceneMatch(f, path_number, scene_number) ==
    path_number = IntOf(f.orbitNumber) /\ scene_number = f.sceneNumber

filter_results(rs, lat, lon, path_number, scene_number) ==
    IF Len(rs) = 0 THEN 0
    ELSE IF (path_number = None \/ scene_number = None) /\ (lat = None \/ lon = None)
    THEN 1
    ELSE IF path_number # None /\ scene_number # None
    THEN LET m == {j \in 1..Len(rs) : PathSceneMatch(rs[j], path_number, scene_number)}
         IN  IF m = {} THEN 0 ELSE Min(m)
    ELSE IF \E j \in 1..Len(rs) : ~rs[j].coordinates.ok
    THEN -1
    ELSE LET filtered == Filtered(rs, lat, lon)
             boarder_dis == [x \in 1..Len(filtered) |->
                                min_distance(<<lat, lon>>, rs[filtered[x]].coordinates)]
             j == IF Len(filtered) > 1 THEN IndexOfMax(boarder_dis) ELSE 1
         IN  IF Len(filtered) = 0 THEN 0 ELSE filtered[j]

-----------------------------------------------------------------------------
(* DataFrames and CSV files.  A table is [columns, rows]: columns is the   *)
(* ordered list of column names, rows the list of rows, each a function    *)
(* from the column names to cells (fields, in a file).                     *)

Size(t) == Len(t.rows) * Len(t.columns)

EmptyFrame(cols) == [columns |-> cols, rows |-> <<>>]

\* no file at the path, or an empty one: pd.read_csv raises
NoFile == [columns |-> <<>>, rows |-> <<>>]

read_csv_raises(file) == file.columns = <<>>

ToField(c) ==
    CASE c.k \in {"nan", "none"} -> [k |-> "empty", n |-> 0]
      [] c.k \in {"int", "digits"} -> [k |-> "digits", n |-> c.n]
      [] c.k = "text" -> IF c.n = 0 THEN [k |-> "empty", n |-> 0] ELSE [k |-> "text", n |-> c.n]

FromField(f) ==
    CASE f.k = "empty" -> NaN
      [] f.k = "digits" -> Num(f.n)
      [] f.k = "text" -> Text(f.n)

\* the file with the row labels as a first column, under an empty header
WithIndex(t) ==
    [columns |-> <<"">> \o t.columns,
     rows |-> [r \in 1..Len(t.rows) |->
                  [c \in DOMAIN t.rows[r] \cup {""} |->
                      IF c = "" THEN [k |-> "digits", n |-> r - 1]
                      ELSE ToField(t.rows[r][c])]]]

WithoutIndex(t) ==
    [columns |-> t.columns,
     rows |-> [r \in 1..Len(t.rows) |-> [c \in DOMAIN t.rows[r] |-> ToField(t.rows[r][c])]]]

to_csv_keeps_index(t, index) == WithIndex(t)

\* DataFrame.to_csv(path, index=index): the whole table replaces the file
to_csv(t, index) == IF index THEN WithIndex(t) ELSE WithoutIndex(t)

\* a header without a name is read as "Unnamed: 0"
ReadName(c) == IF c = "" THEN "Unnamed: 0" ELSE c

\* pd.read_csv(path)
read_csv(file) ==
    [columns |-> [x \in 1..Len(file.columns) |-> ReadName(file.columns[x])],
     rows |-> [r \in 1..Len(file.rows) |->
                  [c \in {ReadName(x) : x \in DOMAIN file.rows[r]} |->
                      FromField(file.rows[r][IF c = "Unnamed: 0" THEN "" ELSE c])]]]

\* df.loc[r, col] = v; a column the frame lacks is added, NaN in the other rows
SetCell(t, r, col, v) ==
    IF col \in Range(t.columns)
    THEN [t EXCEPT !.rows[r][col] = v]
    ELSE [columns |-> Append(t.columns, col),
          rows |-> [x \in 1..Len(t.rows) |->
                       [c \in DOMAIN t.rows[x] \cup {col} |->
                           IF c = col THEN (IF x = r THEN v ELSE NaN) ELSE t.rows[x][c]]]]

RECURSIVE SetCells(_, _, _, _)
SetCells(t, r, cols, vals) ==
    IF cols = <<>> THEN t
    ELSE SetCells(SetCell(t, r, Head(cols), vals[Head(cols)]), r, Tail(cols), vals)

\* the eight values to_dataframe writes for a product
Projected(f) ==
    [c \in Range(OUTPUT_COLUMNS) |->
        CASE c = "identifier" -> f.identifier
          [] c = "file_status" -> f.status
          [] c = "resolution" -> f.resolution
          [] c = "path_number" -> f.orbitNumber
          [] c = "scene_number" -> f.sceneNumber
          [] c = "download_url" -> f.downloadUrl
          [] c = "preview_url" -> f.previewUrl
          [] c = "cloud_coverage" -> f.cloud]

\* the columns of OUTPUT_COLUMNS the frame lacks, in order
MissingOutputs(t) == SelectSeq(OUTPUT_COLUMNS, LAMBDA c : c \notin Range(t.columns))

\* pd.concat([df, j], axis=0, ignore_index=True), j the one-row frame of the product
Concat(t, f) ==
    LET cols == t.columns \o MissingOutputs(t)
        widen(row) == [c \in Range(cols) |-> IF c \in DOMAIN row THEN row[c] ELSE NaN]
        j == [c \in Range(cols) |->
                 IF c \in Range(OUTPUT_COLUMNS) THEN Projected(f)[c] ELSE NaN]
    IN  [columns |-> cols,
         rows |-> Append([x \in 1..Len(t.rows) |-> widen(t.rows[x])], j)]

NoIndex == -1

\* if (index == df.size)
AppendPosition(t) == Size(t)

(* GPortalResponse.to_dataframe(df, index) for the product f.  hasFrame =   *)
(* FALSE is df = None, index = NoIndex is index = None.  The result is     *)
(* [raised, df, ret]: whether an exception left the call, the caller's     *)
(* frame after the call, and the frame returned.                           *)
to_dataframe(hasFrame, frame, index, f) ==
    LET d1 == IF hasFrame THEN frame ELSE EmptyFrame(OUTPUT_COLUMNS)
        missing == IF index = NoIndex THEN MissingOutputs(d1) ELSE <<>>
        \* df[c] = [] on a frame that has rows: ValueError
        raisedCols == missing # <<>> /\ Len(d1.rows) > 0
        d2 == [columns |-> d1.columns \o missing, rows |-> d1.rows]
        idx == IF index = NoIndex THEN 0 ELSE index
    IN  IF raisedCols THEN [raised |-> TRUE, df |-> d1, ret |-> d1]
        ELSE IF idx = AppendPosition(d2)
        THEN [raised |-> FALSE, df |-> d2, ret |-> Concat(d2, f)]
        ELSE IF idx >= Len(d2.rows)
        THEN [raised |-> TRUE, df |-> d2, ret |-> d2]
        ELSE LET d3 == SetCells(d2, idx + 1, OUTPUT_COLUMNS, Projected(f))
             IN  [raised |-> FALSE, df |-> d3, ret |-> d3]

-----------------------------------------------------------------------------
(* search_csv *)

CheckpointInterval == 100

\* GPortalResolution.H, the 250 m class
Resolution_H == Num(250)

\* GPortalResolution.from_int(int(resolution))
from_int(c) == IntOf(c)

\* api.search(date, lat, lon, resolution, path_number, scene_number): the
\* catalogue answers with its candidate set and filter_results picks from it
api_search(rs, q) == filter_results(rs, q.lat, q.lon, q.path_number, q.scene_number)

\* the row as the loop body sees it
RowDict(t, idx) == fillna(t.rows[idx + 1])

\* the search parameters read from the current row
Query(row) ==
    [date |-> get_value(row, "date"),
     lat |-> get_value(row, "lat"),
     lon |-> get_value(row, "lon"),
     path_number |-> get_value(row, "path_number"),
     scene_number |-> get_value(row, "scene_number"),
     resolution |-> IF Truthy(get_value(row, "resolution"))
                    THEN from_int(get_value(row, "resolution"))
                    ELSE Resolution_H]

NoCall == [date |-> None, lat |-> None, lon |-> None, path_number |-> None,
           scene_number |-> None, resolution |-> None]

SkipTestInverted(row, norepeat) == Truthy(get_value(row, "identifier")) /\ ~norepeat

\* if id and args.no_repeat
SkipTest(row, norepeat) == Truthy(get_value(row, "identifier")) /\ norepeat

\* if (i % 100 == 0)
CheckpointDue(idx) == idx % CheckpointInterval = 0

ApplyResultBlanking(t, idx, rs, r) ==
    IF r # 0 THEN to_dataframe(TRUE, t, idx, rs[r]).df
    ELSE [t EXCEPT !.rows[idx + 1] =
              [c \in DOMAIN t.rows[idx + 1] |->
                  IF c \in Range(OUTPUT_COLUMNS) THEN NaN ELSE t.rows[idx + 1][c]]]

\* if result != None: result.to_dataframe(df, i)
ApplyResult(t, idx, rs, r) ==
    IF r # 0 THEN to_dataframe(TRUE, t, idx, rs[r]).df ELSE t

\* df = pd.read_csv(args.csv)
ReadCsv ==
    /\ pc = "start"
    /\ ~read_csv_raises(disk)
    /\ df' = read_csv(disk)
    /\ df0' = read_csv(disk)
    /\ i' = 0
    /\ pc' = "loop"
    /\ UNCHANGED <<disk, run, no_repeat, results, lastCall, lastResult, lastRow,
                   outcome, searched, input0, sinceFlush, resolved,
                   flushedResolved, prevResolved, allSkip, prevPc>>

\* one pass of the loop body that ends at `continue`
SkipRow ==
    /\ pc = "loop"
    /\ i < Len(df.rows)
    /\ SkipTest(RowDict(df, i), no_repeat)
    /\ i' = i + 1
    /\ lastRow' = i + 1
    /\ outcome' = "skipped"
    /\ sinceFlush' = sinceFlush + 1
    /\ UNCHANGED <<df, disk, pc, run, no_repeat, results, lastCall, lastResult,
                   searched, df0, input0, resolved, flushedResolved,
                   prevResolved, allSkip, prevPc>>

\* one pass of the loop body in which api.search returns
SearchRow ==
    /\ pc = "loop"
    /\ i < Len(df.rows)
    /\ ~SkipTest(RowDict(df, i), no_repeat)
    /\ LET q == Query(RowDict(df, i))
           r == api_search(results, q)
           after == ApplyResult(df, i, results, r)
       IN  /\ r # -1
           /\ lastCall' = q
           /\ lastResult' = r
           /\ df' = after
           /\ resolved' = IF r # 0 THEN resolved \cup {i + 1} ELSE resolved
           /\ outcome' = IF r # 0 THEN "resolved" ELSE "unresolved"
           /\ IF CheckpointDue(i)
              THEN /\ disk' = to_csv(after, FALSE)
                   /\ sinceFlush' = 0
                   /\ flushedResolved' = resolved'
              ELSE /\ sinceFlush' = sinceFlush + 1
                   /\ UNCHANGED <<disk, flushedResolved>>
    /\ searched' = searched \cup {i + 1}
    /\ lastRow' = i + 1
    /\ i' = i + 1
    /\ UNCHANGED <<pc, run, no_repeat, results, df0, input0, prevResolved,
                   allSkip, prevPc>>

\* one pass of the loop body in which an exception leaves api.search: nothing
\* in search_csv catches it
SearchRaises ==
    /\ pc = "loop"
    /\ i < Len(df.rows)
    /\ ~SkipTest(RowDict(df, i), no_repeat)
    /\ LET q == Query(RowDict(df, i))
       IN  /\ api_search(results, q) = -1
           /\ lastCall' = q
    /\ lastResult' = -1
    /\ searched' = searched \cup {i + 1}
    /\ lastRow' = i + 1
    /\ outcome' = "raised"
    /\ pc' = "aborted"
    /\ UNCHANGED <<df, disk, i, run, no_repeat, results, df0, input0, sinceFlush,
                   resolved, flushedResolved, prevResolved, allSkip, prevPc>>

\* the loop is over: df.to_csv(args.csv, index=False)
Finish ==
    /\ pc = "loop"
    /\ i = Len(df.rows)
    /\ disk' = to_csv(df, FALSE)
    /\ sinceFlush' = 0
    /\ flushedResolved' = resolved
    /\ pc' = "done"
    /\ UNCHANGED <<df, i, run, no_repeat, results, lastCall, lastResult, lastRow,
                   outcome, searched, df0, input0, resolved, prevResolved,
                   allSkip, prevPc>>

\* the process ends (completed, failed, or killed between two rows) and
\* search_csv is started again over the same file
Rerun ==
    /\ pc \in {"loop", "done", "aborted"}
    /\ run < MaxRuns
    /\ \E nr \in BOOLEAN :
          /\ no_repeat' = nr
          /\ allSkip' = (allSkip /\ nr)
    /\ run' = run + 1
    /\ pc' = "start"
    /\ df' = EmptyFrame(<<>>)
    /\ df0' = EmptyFrame(<<>>)
    /\ i' = 0
    /\ lastCall' = NoCall
    /\ lastResult' = 0
    /\ lastRow' = 0
    /\ outcome' = "none"
    /\ searched' = {}
    /\ sinceFlush' = 0
    /\ resolved' = {}
    /\ flushedResolved' = {}
    /\ prevResolved' = prevResolved \cup flushedResolved
    /\ prevPc' = pc
    /\ UNCHANGED <<disk, results, input0>>

-----------------------------------------------------------------------------
(* The tables search_csv is run over *)

FULL_COLUMNS == <<"date", "lat", "lon", "path_number", "scene_number", "resolution",
                  "identifier", "file_status", "download_url", "preview_url",
                  "cloud_coverage">>

\* a row whose identifier X123 and output values come from an earlier search
InputRow(lat, lon, path, scene, id) ==
    [c \in Range(FULL_COLUMNS) |->
        CASE c = "date" -> Text(50)
          [] c = "lat" -> lat
          [] c = "lon" -> lon
          [] c = "path_number" -> path
          [] c = "scene_number" -> scene
          [] c = "resolution" -> IF id = NaN THEN NaN ELSE Num(1000)
          [] c = "identifier" -> id
          [] c = "file_status" -> IF id = NaN THEN NaN ELSE Text(21)
          [] c = "download_url" -> IF id = NaN THEN NaN ELSE Text(39)
          [] c = "preview_url" -> IF id = NaN THEN NaN ELSE Text(49)
          [] c = "cloud_coverage" -> IF id = NaN THEN NaN ELSE Num(90)]

X123 == Text(9)

InputRows ==
    { InputRow(Num(2), Num(2), NaN, NaN, NaN),
      InputRow(Num(0), Num(2), NaN, NaN, NaN),
      InputRow(Num(2), Num(2), Num(1), Num(2), NaN),
      InputRow(Num(2), Num(2), Num(2), Num(1), X123) }

Layouts == {FULL_COLUMNS, INPUT_COLUMNS}

Restrict(row, cols) == [c \in Range(cols) |-> row[c]]

TablesOver(cols, n) ==
    {[columns |-> cols, rows |-> rs] : rs \in SeqsUpTo({Restrict(r, cols) : r \in InputRows}, n)}

InputFiles == UNION {{to_csv(t, FALSE) : t \in TablesOver(cols, MaxRows)} : cols \in Layouts}

InitWith(files, catalogues) ==
    /\ disk \in files
    /\ input0 = disk
    /\ results \in catalogues
    /\ no_repeat \in BOOLEAN
    /\ allSkip = no_repeat
    /\ df = EmptyFrame(<<>>)
    /\ df0 = EmptyFrame(<<>>)
    /\ i = 0
    /\ pc = "start"
    /\ run = 1
    /\ lastCall = NoCall
    /\ lastResult = 0
    /\ lastRow = 0
    /\ outcome = "none"
    /\ searched = {}
    /\ sinceFlush = 0
    /\ resolved = {}
    /\ flushedResolved = {}
    /\ prevResolved = {}
    /\ prevPc = "none"

Init == InitWith(InputFiles, Catalogues)

Next == ReadCsv \/ SkipRow \/ SearchRow \/ SearchRaises \/ Finish \/ Rerun

Spec == Init /\ [][Next]_vars

-----------------------------------------------------------------------------
(* An uninterrupted run of the loop of search_csv, as a function of the    *)
(* table: the rows from idx on are handled in order.                       *)

RECURSIVE RunFrom(_, _, _, _)
RunFrom(t, idx, rs, norepeat) ==
    IF idx >= Len(t.rows) THEN t
    ELSE IF SkipTest(RowDict(t, idx), norepeat) THEN RunFrom(t, idx + 1, rs, norepeat)
    ELSE LET r == api_search(rs, Query(RowDict(t, idx)))
         IN  IF r = -1 THEN t
             ELSE RunFrom(ApplyResult(t, idx, rs, r), idx + 1, rs, norepeat)

\* the file an uninterrupted run with no_repeat leaves
Uninterrupted(file, rs) == to_csv(RunFrom(read_csv(file), 0, rs, TRUE), FALSE)

-----------------------------------------------------------------------------
(* Properties of search_csv *)

\* the row's identifier cell is neither missing nor empty
NonEmptyId(row) ==
    /\ "identifier" \in DOMAIN row
    /\ row["identifier"].k \notin {"nan", "none"}
    /\ row["identifier"] # Text(0)

\* every column the row had when the table was loaded still has its value
RowKept(r) == \A c \in DOMAIN df0.rows[r] : df.rows[r][c] = df0.rows[r][c]

Running == pc \in {"loop", "done", "aborted"}

\* C1: with no_repeat set, a row that carries a non-empty identifier is never
\* passed to api.search, and every column of it keeps the value it was loaded with.
C1_SkipIfDone ==
    (Running /\ no_repeat) =>
        \A r \in 1..Len(df0.rows) :
            NonEmptyId(df0.rows[r]) => (r \notin searched /\ RowKept(r))

C1_Witness ==
    /\ pc = "done"
    /\ no_repeat
    /\ resolved # {}
    /\ \E r \in 1..Len(df0.rows) : NonEmptyId(df0.rows[r]) /\ r < Len(df0.rows)

\* C3 as stated: a run is interrupted between two rows, a run with no_repeat is
\* started from the file, and when it completes no row that was loaded with an
\* identifier has been searched and the file equals the one an uninterrupted
\* no_repeat run over the original input leaves.
C3_ResumeAfterAnyRun ==
    (run = 2 /\ prevPc = "loop" /\ no_repeat /\ pc = "done") =>
        /\ \A r \in 1..Len(df0.rows) : NonEmptyId(df0.rows[r]) => r \notin searched
        /\ disk = Uninterrupted(input0, results)

\* C3 amended: the same, when every earlier run had no_repeat set too (however
\* those runs ended).
C3_ResumeAfterSkipRuns ==
    (run >= 2 /\ allSkip /\ pc = "done") =>
        /\ \A r \in 1..Len(df0.rows) : NonEmptyId(df0.rows[r]) => r \notin searched
        /\ disk = Uninterrupted(input0, results)

C3_Witness ==
    /\ run = 2
    /\ prevPc = "loop"
    /\ allSkip
    /\ pc = "done"
    /\ prevResolved # {}
    /\ resolved # {}
    /\ disk # input0

\* C4: when api.search fails for a row, the driver goes on: it is never left
\* stopped inside the loop with rows unprocessed and the final write not done.
C4_RowFailureNeverAborts == outcome = "raised" => pc \in {"loop", "done"}

\* C7: a loop step whose search yields no match leaves every cell of every row
\* of the table as it was.
C7_NoMatchLeavesTable ==
    [][(pc = "loop" /\ i' = i + 1 /\ outcome' = "unresolved") => df' = df]_vars

C7_Witness ==
    /\ outcome = "unresolved"
    /\ NonEmptyId(df.rows[lastRow])
    /\ Len(df.rows) > 1

Called == outcome \in {"resolved", "unresolved", "raised"}

\* the cell of the loaded row is missing (no such column) or empty
Absent(row, key) == key \notin DOMAIN row \/ row[key].k = "nan"

\* C9: a query cell reaches api.search as None exactly when the cell is missing
\* or empty; a cell holding 0 is passed on as a value.
C9_ZeroIsSupplied ==
    Called =>
        \A key \in {"lat", "lon", "path_number", "scene_number"} :
            (lastCall[key] = None) <=> Absent(df0.rows[lastRow], key)

\* C10: a row resolved in the loop holds the product's path number, scene number
\* and resolution, its date, lat and lon and all other rows are as before; and a
\* later run without no_repeat searches a row that an earlier run resolved and
\* wrote with a complete path/scene pair.
C10_ResolvedRowRequeriedByPathScene ==
    /\ (Running /\ outcome = "resolved") =>
          /\ df.rows[lastRow]["path_number"] = results[lastResult].orbitNumber
          /\ df.rows[lastRow]["scene_number"] = results[lastResult].sceneNumber
          /\ df.rows[lastRow]["resolution"] = results[lastResult].resolution
          /\ \A c \in {"date", "lat", "lon"} :
                df.rows[lastRow][c] = df0.rows[lastRow][c]
    /\ (run >= 2 /\ ~no_repeat /\ Called /\ lastRow \in prevResolved) =>
          (lastCall.path_number # None /\ lastCall.scene_number # None)

-----------------------------------------------------------------------------
(* One run of search_csv over a table longer than the checkpoint interval  *)

LongRows == CheckpointInterval + 2

PlainRow == InputRow(Num(2), Num(2), NaN, NaN, NaN)

DoneRow == InputRow(Num(2), Num(2), Num(2), Num(1), X123)

\* all rows still to be searched, but for at most one that carries an identifier
LongTables ==
    {[columns |-> FULL_COLUMNS,
      rows |-> [r \in 1..LongRows |-> IF r = k THEN DoneRow ELSE PlainRow]] :
        k \in {0, 1, CheckpointInterval, CheckpointInterval + 1}}

InitLong == InitWith({to_csv(t, FALSE) : t \in LongTables}, {<<F2>>, <<F2, F4>>, <<>>})

NextLong == ReadCsv \/ SkipRow \/ SearchRow \/ SearchRaises \/ Finish

SpecLong == InitLong /\ [][NextLong]_vars

\* C2: at every point of a run at most CheckpointInterval rows have been handled
\* since the table was last written to the file.
C2_FlushEveryInterval == Running => sinceFlush <= CheckpointInterval

-----------------------------------------------------------------------------
(* One call of filter_results on a candidate set *)

Coords == {None} \cup {Num(x) : x \in 0..MaxCoord}

PathArgs == {None, Num(1), Num(2)}

SceneArgs == {None, Num(0), Num(1), Num(2)}

InitFilter ==
    /\ results \in CandidateSets
    /\ pc = "idle"
    /\ lastCall = NoCall
    /\ lastResult = 0
    /\ disk = NoFile
    /\ input0 = NoFile
    /\ df = EmptyFrame(<<>>)
    /\ df0 = EmptyFrame(<<>>)
    /\ no_repeat = FALSE
    /\ allSkip = FALSE
    /\ i = 0
    /\ run = 1
    /\ lastRow = 0
    /\ outcome = "none"
    /\ searched = {}
    /\ sinceFlush = 0
    /\ resolved = {}
    /\ flushedResolved = {}
    /\ prevResolved = {}
    /\ prevPc = "none"

FilterCall ==
    /\ pc = "idle"
    /\ \E lat \in Coords, lon \in Coords, path \in PathArgs, scene \in SceneArgs :
          /\ lastCall' = [NoCall EXCEPT !.lat = lat, !.lon = lon,
                                        !.path_number = path, !.scene_number = scene]
          /\ lastResult' = filter_results(results, lat, lon, path, scene)
    /\ pc' = "filtered"
    /\ UNCHANGED <<df, disk, i, run, no_repeat, results, lastRow, outcome, searched,
                   df0, input0, sinceFlush, resolved, flushedResolved, prevResolved,
                   allSkip, prevPc>>

SpecFilter == InitFilter /\ [][FilterCall]_vars

CompletePathScene == lastCall.path_number # None /\ lastCall.scene_number # None

CompleteLatLon == lastCall.lat # None /\ lastCall.lon # None

\* positions whose orbit path number and scene number equal the queried pair
PairMatches ==
    {j \in 1..Len(results) :
        /\ results[j].orbitNumber.n = lastCall.path_number.n
        /\ results[j].sceneNumber.n = lastCall.scene_number.n}

\* positions whose polygon contains the queried point
Containing ==
    {j \in 1..Len(results) :
        inside_polygon(results[j].coordinates, lastCall.lon, lastCall.lat) = 1}

BorderDistance(j) == min_distance(<<lastCall.lat, lastCall.lon>>, results[j].coordinates)

\* C5: on a non-empty candidate set and a complete path/scene pair the call
\* returns the first product in order whose path and scene numbers equal the pair,
\* None when there is none, whatever lat and lon are; no polygon is looked at, so
\* a product without coordinates does not make the call fail.
C5_PathSceneFirst ==
    (pc = "filtered" /\ Len(results) > 0 /\ CompletePathScene) =>
        lastResult = (IF PairMatches = {} THEN 0 ELSE Min(PairMatches))

C5_Witness ==
    /\ pc = "filtered"
    /\ CompletePathScene
    /\ CompleteLatLon
    /\ lastResult = 2
    /\ \E j \in 1..Len(results) : ~results[j].coordinates.ok
    /\ 1 \in Containing
    /\ results[1].orbitNumber = results[2].orbitNumber

\* C6: on a complete lat/lon pair and no complete path/scene pair a call that
\* returns gives None when no polygon contains the point, and otherwise a product
\* that contains it, whose border distance is the largest among those that do, and
\* the earliest in order of those at that distance.
C6_DeepestContaining ==
    (pc = "filtered" /\ CompleteLatLon /\ ~CompletePathScene /\ lastResult # -1) =>
        IF Containing = {} THEN lastResult = 0
        ELSE /\ lastResult \in Containing
             /\ \A j \in Containing :
                   /\ BorderDistance(j) <= BorderDistance(lastResult)
                   /\ j < lastResult => BorderDistance(j) < BorderDistance(lastResult)

C6_Witness ==
    /\ pc = "filtered"
    /\ CompleteLatLon
    /\ ~CompletePathScene
    /\ Cardinality(Containing) = 3
    /\ lastResult = 2
    /\ BorderDistance(1) < BorderDistance(3)
    /\ BorderDistance(3) < BorderDistance(2)

-----------------------------------------------------------------------------
(* One call of GPortalResponse.save on a file *)

SavedTables ==
    {[columns |-> OUTPUT_COLUMNS, rows |-> rs] :
        rs \in SeqsUpTo({Projected(f) : f \in Footprints}, MaxRows)}

SaveFiles ==
    {NoFile} \cup InputFiles
        \cup {to_csv(t, TRUE) : t \in SavedTables}
        \cup {to_csv(t, FALSE) : t \in SavedTables}

InitSave ==
    /\ disk \in SaveFiles
    /\ input0 = disk
    /\ results \in {<<f>> : f \in Footprints}
    /\ pc = "idle"
    /\ lastCall = NoCall
    /\ lastResult = 0
    /\ df = EmptyFrame(<<>>)
    /\ df0 = EmptyFrame(<<>>)
    /\ no_repeat = FALSE
    /\ allSkip = FALSE
    /\ i = 0
    /\ run = 1
    /\ lastRow = 0
    /\ outcome = "none"
    /\ searched = {}
    /\ sinceFlush = 0
    /\ resolved = {}
    /\ flushedResolved = {}
    /\ prevResolved = {}
    /\ prevPc = "none"

\* the table save starts from: the file's, or none
Loaded(file) == IF read_csv_raises(file) THEN EmptyFrame(<<>>) ELSE read_csv(file)

\* save(path) of the product results[1], to_dataframe returns
Save ==
    /\ pc = "idle"
    /\ LET td == to_dataframe(~read_csv_raises(disk), Loaded(disk), NoIndex, results[1])
       IN  /\ ~td.raised
           /\ df' = td.ret
           /\ disk' = to_csv(td.ret, TRUE)
    /\ df0' = Loaded(disk)
    /\ pc' = "saved"
    /\ UNCHANGED <<i, run, no_repeat, results, lastCall, lastResult, lastRow, outcome,
                   searched, input0, sinceFlush, resolved, flushedResolved,
                   prevResolved, allSkip, prevPc>>

\* save(path) of the product results[1], an exception leaves to_dataframe
SaveRaises ==
    /\ pc = "idle"
    /\ to_dataframe(~read_csv_raises(disk), Loaded(disk), NoIndex, results[1]).raised
    /\ df0' = Loaded(disk)
    /\ pc' = "aborted"
    /\ UNCHANGED <<df, disk, i, run, no_repeat, results, lastCall, lastResult, lastRow,
                   outcome, searched, input0, sinceFlush, resolved, flushedResolved,
                   prevResolved, allSkip, prevPc>>

NextSave == Save \/ SaveRaises

SpecSave == InitSave /\ [][NextSave]_vars

\* C8: save on a table of n rows leaves a table of n + 1 rows, whose first n rows
\* have the values they had and whose columns start with the columns it had, in
\* order.
C8_SaveAppends ==
    pc = "saved" =>
        /\ Len(df.rows) = Len(df0.rows) + 1
        /\ \A r \in 1..Len(df0.rows) : \A c \in DOMAIN df0.rows[r] :
              df.rows[r][c] = df0.rows[r][c]
        /\ SubSeq(df.columns, 1, Len(df0.columns)) = df0.columns

====
